---- MODULE Spec2Model ----
(***************************************************************************)
(* MemoriaVault backend: the SQLite store with its FTS5 index (db.py) and  *)
(* the upload pipeline (app.py), as a state machine.                       *)
(*                                                                         *)
(* Text values are sequences of one-character strings, so that the FTS5    *)
(* tokenizer is computed rather than assumed.  The FTS5 table is an        *)
(* external-content table (content='memories'): memories_fts holds only    *)
(* the inverted index, and FTS5 reads column values from memories.         *)
(***************************************************************************)
EXTENDS Integers, Sequences, FiniteSets, TLC

VARIABLES
    memories,          \* committed rows of table memories: id -> row
    sqlite_sequence,   \* committed AUTOINCREMENT counter of table memories
    memories_fts,      \* committed inverted index: set of term instances
    lock,              \* holder of SQLite's write (RESERVED) lock
    uploads,           \* files that exist on disk (UPLOAD_DIR and others)
    uuid_seq,          \* number of uuid4 names generated so far
    pc,                \* per caller: position inside the running operation
    frame,             \* per caller: locals of the running / last operation
    deleted,           \* history: ids whose delete_memory returned True
    issued,            \* history: ids in the order their creates committed
    now                \* the clock CURRENT_TIMESTAMP reads, in seconds

vars == <<memories, sqlite_sequence, memories_fts, lock, uploads, uuid_seq,
          pc, frame, deleted, issued, now>>

dbvars == <<memories, sqlite_sequence, memories_fts>>

(***************************************************************************)
(* Bounds of the model.                                                    *)
(***************************************************************************)
MaxId == 2          \* at most this many rows are ever inserted
MaxUploads == 2     \* at most this many uploads pass validation
MaxClock == 1       \* the clock advances at most this many seconds

(***************************************************************************)
(* Values.                                                                 *)
(***************************************************************************)
NULL == <<"NULL">>                       \* SQL NULL / Python None (text)
NoPath == [root |-> "None", name |-> 0]  \* media_path=None
NoType == "None"                         \* media_type=None

Str_a == <<"a">>
Str_b == <<"b">>
Str_c == <<"c">>
Str_d == <<"d">>
Str_bc == <<"b", " ", "c">>
Str_a_b == <<"a", "-", "b">>

Str_empty == <<>>
\* What the extractors return when they fail: "Text extraction failed: ...",
\* "OCR not available - ...", "Transcription failed: ...".
Str_failed == <<"f", "a", "i", "l", "e", "d">>

Truthy(s) == s # NULL /\ s # <<>>        \* Python truthiness of str / None

(***************************************************************************)
(* FTS5 unicode61 tokenizer: maximal runs of alphanumerics, case folded.   *)
(***************************************************************************)
LowerCase == {"a", "b", "c", "d", "e", "f", "i", "l"}
UpperCase == {"A", "B"}
IsTokenChar(c) == c \in LowerCase \cup UpperCase
Fold(c) == IF c = "A" THEN "a" ELSE IF c = "B" THEN "b" ELSE c

RECURSIVE Scan(_, _, _, _)
Scan(s, i, cur, out) ==
    IF i > Len(s)
    THEN IF cur = <<>> THEN out ELSE Append(out, cur)
    ELSE IF IsTokenChar(s[i])
         THEN Scan(s, i + 1, Append(cur, Fold(s[i])), out)
         ELSE Scan(s, i + 1, <<>>, IF cur = <<>> THEN out ELSE Append(out, cur))

Tokenize(s) == IF s = NULL THEN <<>> ELSE Scan(s, 1, <<>>, <<>>)

(***************************************************************************)
(* The FTS5 table memories_fts(title, text, person).  Columns are numbered *)
(* from 0, as snippet() numbers them.                                      *)
(***************************************************************************)
FtsColumns == <<"title", "text", "person">>

ColumnTokens(row, col) == Tokenize(row[FtsColumns[col + 1]])

DocSize(row, col) == Len(ColumnTokens(row, col))

Instances(rowid, row) ==
    UNION { { [rowid |-> rowid, col |-> col,
               term |-> ColumnTokens(row, col)[i], off |-> i - 1]
              : i \in 1..DocSize(row, col) }
            : col \in 0..2 }

TermsOf(row) == { e.term : e \in Instances(0, row) }

\* INSERT INTO memories_fts(rowid, ...) VALUES (...): index the given values.
Fts5Insert(idx, rowid, vals) == idx \cup Instances(rowid, vals)

\* Removing a row from an external-content FTS5 table: the row is looked up
\* in the content table; when it is not there, nothing is removed; when it is,
\* the terms of the values READ FROM THE CONTENT TABLE lose their entries.
Fts5Delete(idx, content, rowid) ==
    IF rowid \notin DOMAIN content
    THEN idx
    ELSE { e \in idx : ~(e.rowid = rowid /\ e.term \in TermsOf(content[rowid])) }

\* UPDATE memories_fts SET ... WHERE rowid = ?: delete as above, then insert.
Fts5Update(idx, content, rowid, vals) ==
    IF rowid \notin DOMAIN content
    THEN idx
    ELSE Fts5Insert(Fts5Delete(idx, content, rowid), rowid, vals)

\* The three AFTER triggers; content is table memories after the statement.
memories_fts_insert(idx, content, new) == Fts5Insert(idx, new.id, new)

memories_fts_update(idx, content, new) == Fts5Update(idx, content, new.id, new)

memories_fts_delete(idx, content, old) == Fts5Delete(idx, content, old.id)


(***************************************************************************)
(* Table memories and its AUTOINCREMENT counter.  A database value db is   *)
(* [memories, sqlite_sequence, memories_fts]: the committed one is held by *)
(* the variables, an uncommitted one by the connection that wrote it.      *)
(***************************************************************************)
Columns == {"id", "title", "text", "date", "location", "sentiment",
            "media_path", "media_type", "person", "created_at", "updated_at"}

Committed == [memories |-> memories, sqlite_sequence |-> sqlite_sequence,
              memories_fts |-> memories_fts]

SetMax(S) == IF S = {} THEN 0 ELSE CHOOSE x \in S : \A y \in S : y <= x

\* A rowid one larger than the largest one the table holds now.
NextRowid_reuse(db) == SetMax(DOMAIN db.memories) + 1

\* id INTEGER PRIMARY KEY AUTOINCREMENT: one larger than the largest rowid
\* the table has ever held, which sqlite_sequence records.
NextRowid(db) == db.sqlite_sequence + 1

\* A table whose media_type has the NOT NULL constraint but no CHECK.
ConstraintsOk_nocheck(row) ==
    /\ row.title # NULL
    /\ row.media_path # NoPath
    /\ row.media_type # NoType

\* title / media_path / media_type NOT NULL, CHECK (media_type IN (...)).
ConstraintsOk(row) ==
    /\ row.title # NULL
    /\ row.media_path # NoPath
    /\ row.media_type # NoType
    /\ row.media_type \in {"image", "audio"}

\* The row the INSERT of create_memory writes, column by column; created_at
\* and updated_at take their DEFAULT CURRENT_TIMESTAMP.
NewRow_swapped(id, args) ==
    [id |-> id, title |-> args.title, text |-> args.person, date |-> args.date,
     location |-> args.location, sentiment |-> args.sentiment,
     media_path |-> args.media_path, media_type |-> args.media_type,
     person |-> args.text, created_at |-> now, updated_at |-> now]

NewRow(id, args) ==
    [id |-> id, title |-> args.title, text |-> args.text, date |-> args.date,
     location |-> args.location, sentiment |-> args.sentiment,
     media_path |-> args.media_path, media_type |-> args.media_type,
     person |-> args.person, created_at |-> now, updated_at |-> now]

\* INSERT INTO memories (...) VALUES (...), with its AFTER INSERT trigger.
InsertMemory(db, args) ==
    LET id == NextRowid(db)
        row == NewRow(id, args)
        content == [i \in DOMAIN db.memories \cup {id} |->
                        IF i = id THEN row ELSE db.memories[i]]
    IN  [memories |-> content,
         sqlite_sequence |-> id,
         memories_fts |-> memories_fts_insert(db.memories_fts, content, row)]

\* The keys update_memory copies into its SET clause.
UpdatableKeys_any == Columns

UpdatableKeys == {"title", "text", "date", "location", "sentiment", "person"}

SetClauses(kwargs) == DOMAIN kwargs \cap UpdatableKeys

\* SET key = ? for each of them, and updated_at = CURRENT_TIMESTAMP.
UpdatedRow(row, kwargs) ==
    [k \in DOMAIN row |-> IF k \in SetClauses(kwargs) THEN kwargs[k]
                          ELSE IF k = "updated_at" THEN now
                          ELSE row[k]]

\* UPDATE memories SET ... WHERE id = ?, with its AFTER UPDATE trigger.
UpdateMemories(db, id, kwargs) ==
    IF id \notin DOMAIN db.memories
    THEN db
    ELSE LET row == UpdatedRow(db.memories[id], kwargs)
             content == [db.memories EXCEPT ![id] = row]
         IN  [db EXCEPT !.memories = content,
                        !.memories_fts =
                            memories_fts_update(db.memories_fts, content, row)]

\* DELETE FROM memories WHERE id = ?, with its AFTER DELETE trigger.
DeleteFromMemories(db, id) ==
    IF id \notin DOMAIN db.memories
    THEN db
    ELSE LET old == db.memories[id]
             content == [i \in DOMAIN db.memories \ {id} |-> db.memories[i]]
         IN  [db EXCEPT !.memories = content,
                        !.memories_fts =
                            memories_fts_delete(db.memories_fts, content, old)]

\* SELECT * FROM memories WHERE id = ?; dict(row) or None.
get_memory_by_id(content, memory_id) ==
    IF memory_id \in DOMAIN content
    THEN [found |-> TRUE, row |-> content[memory_id]]
    ELSE [found |-> FALSE]


(***************************************************************************)
(* search_memories: the MATCH query joined with memories.                  *)
(***************************************************************************)
\* An FTS5 query string of barewords: every bareword must occur (implicit
\* AND).  Anything else in the string, or no bareword at all, is an FTS5
\* syntax error.
QuerySyntaxOk(query) ==
    /\ \A i \in 1..Len(query) : IsTokenChar(query[i]) \/ query[i] = " "
    /\ Tokenize(query) # <<>>

QueryTerms(query) == { Tokenize(query)[i] : i \in 1..Len(Tokenize(query)) }

\* memories_fts MATCH ?: the rowids the inverted index lists for every term.
Fts5Match(idx, query) ==
    { r \in { e.rowid : e \in idx } :
        \A t \in QueryTerms(query) : \E e \in idx : e.rowid = r /\ e.term = t }

\* JOIN memories m ON memories_fts.rowid = m.id
Joined(content, idx, query) == Fts5Match(idx, query) \cap DOMAIN content

\* snippet(memories_fts, col, ...) of a joined row fails with "database disk
\* image is malformed" when the index lists a matched term of that column at
\* an offset beyond the column's size in the content row.
SnippetCorrupt(content, idx, query, rowid, col) ==
    \E e \in idx : /\ e.rowid = rowid
                   /\ e.col = col
                   /\ e.term \in QueryTerms(query)
                   /\ e.off > DocSize(content[rowid], col)

\* snippet(memories_fts, col, '<mark>', '</mark>', '...', n): the value of
\* column col of the content row with every instance of a query term that
\* the index lists for that column wrapped in the markers.  marked holds the
\* token offsets that are wrapped.  The window of n tokens is wider than any
\* column value drawn here, so no ellipsis is produced.
snippet(content, idx, query, rowid, col) ==
    [text |-> content[rowid][FtsColumns[col + 1]],
     marked |-> { e.off : e \in { x \in idx : /\ x.rowid = rowid
                                              /\ x.col = col
                                              /\ x.term \in QueryTerms(query) } }]

\* The columns the two snippet() calls of the query name.
TitleSnippetColumn == 1

TextSnippetColumn == 2

\* snippet_parts and its join: a "Title: " part from title_snippet and a
\* "Text: " part from text_snippet, each only when the snippet is truthy;
\* the plain title when there is no part.
SnippetParts(content, idx, query, rowid) ==
    LET title_snippet == snippet(content, idx, query, rowid, TitleSnippetColumn)
        text_snippet == snippet(content, idx, query, rowid, TextSnippetColumn)
        parts == (IF Truthy(title_snippet.text)
                  THEN <<[label |-> "Title"] @@ title_snippet>> ELSE <<>>)
                 \o (IF Truthy(text_snippet.text)
                     THEN <<[label |-> "Text"] @@ text_snippet>> ELSE <<>>)
    IN  IF parts # <<>> THEN parts
        ELSE <<[label |-> "", text |-> content[rowid].title, marked |-> {}]>>

ResultRow(row, parts) ==
    [id |-> row.id, title |-> row.title, snippet |-> parts, date |-> row.date,
     sentiment |-> row.sentiment, media_type |-> row.media_type,
     media_path |-> row.media_path]

\* limit: int = 20
DefaultLimit == 20

\* The inputs of bm25 for one row: how often each query term occurs in the
\* row and how many tokens the row has.  Rows that agree on both get the
\* same rank.
TermFrequency(idx, rowid, term) ==
    Cardinality({ e \in idx : e.rowid = rowid /\ e.term = term })

RowSize(idx, rowid) == Cardinality({ e \in idx : e.rowid = rowid })

EqualRank(idx, query, a, b) ==
    /\ RowSize(idx, a) = RowSize(idx, b)
    /\ \A t \in QueryTerms(query) :
         TermFrequency(idx, a, t) = TermFrequency(idx, b, t)

\* ORDER BY rank: the query names no second sort key, so every arrangement
\* of the joined rows is an order the statement may deliver them in.
RankOrders(content, idx, query) ==
    LET S == Joined(content, idx, query)
    IN  { f \in [1..Cardinality(S) -> S] :
            \A i, j \in 1..Cardinality(S) : i # j => f[i] # f[j] }

\* LIMIT ?: a negative limit is no limit.
Limit(rows, limit) ==
    IF limit < 0 \/ limit >= Len(rows) THEN rows ELSE SubSeq(rows, 1, limit)

\* search_memories(query, limit) with the rows delivered in the given order.
search_memories(content, idx, query, limit, order) ==
    IF ~QuerySyntaxOk(query)
    THEN [raised |-> "syntax", results |-> <<>>]
    ELSE IF \E r \in Joined(content, idx, query) :
                \E col \in {TitleSnippetColumn, TextSnippetColumn} :
                    SnippetCorrupt(content, idx, query, r, col)
    THEN [raised |-> "malformed", results |-> <<>>]
    ELSE [raised |-> "none",
          results |-> LET rows == Limit(order, limit)
                      IN  [i \in 1..Len(rows) |->
                              ResultRow(content[rows[i]],
                                        SnippetParts(content, idx, query, rows[i]))]]

\* The ids of the results of search_memories(query).
SearchIds(content, idx, query) ==
    UNION { { r.results[i].id : i \in 1..Len(r.results) } :
            r \in { search_memories(content, idx, query, DefaultLimit, order) :
                    order \in RankOrders(content, idx, query) } }

(***************************************************************************)
(* get_all_memories and list_memories: pages of the table, newest first.   *)
(***************************************************************************)
\* ORDER BY created_at DESC is answered by scanning idx_memories_created_at
\* backwards.  The index lists the rows by created_at and, for one
\* created_at, by rowid, so the backward scan delivers the rows of one
\* created_at with the larger rowid first.
ScansBefore_forward(content, a, b) ==
    \/ content[a].created_at > content[b].created_at
    \/ content[a].created_at = content[b].created_at /\ a < b

ScansBefore(content, a, b) ==
    \/ content[a].created_at > content[b].created_at
    \/ content[a].created_at = content[b].created_at /\ a > b

OrderByCreatedAtDesc(content) ==
    LET S == DOMAIN content
    IN  CHOOSE f \in [1..Cardinality(S) -> S] :
            \A i, j \in 1..Cardinality(S) :
                i < j => ScansBefore(content, f[i], f[j])

\* LIMIT ? OFFSET ?: a negative offset is no offset.
LimitOffset(rows, limit, offset) ==
    Limit(SubSeq(rows, (IF offset < 0 THEN 0 ELSE offset) + 1, Len(rows)),
          limit)

\* get_all_memories(limit, offset): SELECT * of the page.
get_all_memories(content, limit, offset) ==
    LET page == LimitOffset(OrderByCreatedAtDesc(content), limit, offset)
    IN  [i \in 1..Len(page) |-> content[page[i]]]

\* The columns list_memories selects and returns.
ListColumns == {"id", "title", "text", "date", "location", "sentiment",
                "media_path", "media_type", "created_at"}

\* list_memories(limit, offset): the response content.
list_memories(content, limit, offset) ==
    LET page == LimitOffset(OrderByCreatedAtDesc(content), limit, offset)
        rows == [i \in 1..Len(page) |->
                    [k \in ListColumns |-> content[page[i]][k]]]
    IN  [status |-> 200, detail |-> "ok", memories |-> rows,
         count |-> Len(rows)]

(***************************************************************************)
(* get_database_stats: three SELECTs on one connection.  The connection    *)
(* opens no transaction for a SELECT, so each one reads the state that is  *)
(* committed when it runs.                                                 *)
(***************************************************************************)
RECURSIVE SumOver(_, _)
SumOver(S, f) ==
    IF S = {} THEN 0
    ELSE LET x == CHOOSE y \in S : TRUE
         IN  f[x] + SumOver(S \ {x}, f)

\* SELECT COUNT(*) as total FROM memories
CountAll(content) == Cardinality(DOMAIN content)

\* SELECT media_type, COUNT(*) as count FROM memories GROUP BY media_type
CountByType(content) ==
    [t \in { content[i].media_type : i \in DOMAIN content } |->
        Cardinality({ i \in DOMAIN content : content[i].media_type = t })]

\* SELECT AVG(sentiment) ... WHERE sentiment IS NOT NULL, `or 0.0`, and
\* round(avg_sentiment, 2), in hundredths; up is the side of a tie.  Every
\* sentiment stored here is a number, so the WHERE clause keeps every row.
AverageSentiment(content, up) ==
    LET S   == DOMAIN content
        sum == SumOver(S, [i \in S |-> content[i].sentiment])
        n   == Cardinality(S)
        q   == sum \div n
        r   == sum % n
    IN  IF n = 0 THEN 0
        ELSE IF 2 * r < n THEN q
        ELSE IF 2 * r > n THEN q + 1
        ELSE IF up THEN q + 1 ELSE q

(***************************************************************************)
(* Callers.  Each caller runs one operation at a time; an operation that   *)
(* ends leaves its arguments and outcome in frame[p] (pc[p] = "done")      *)
(* until the caller takes them.                                            *)
(***************************************************************************)
Callers == DOMAIN pc

Idle(p) == pc[p] = "idle"

Goto(p, label, locals) ==
    /\ pc' = [pc EXCEPT ![p] = label]
    /\ frame' = [frame EXCEPT ![p] = locals]

\* conn.commit(): the connection's database value becomes the committed one.
Commit(db) ==
    /\ memories' = db.memories
    /\ sqlite_sequence' = db.sqlite_sequence
    /\ memories_fts' = db.memories_fts
    /\ lock' = "free"

\* sqlite3's write lock: a write statement needs it; a connection that holds it
\* keeps it until it commits or is closed.
WriteLockFree_nolock == TRUE

WriteLockFree == lock = "free"

\* create_memory up to and including cursor.execute(INSERT).
CreateInsert(p, in) ==
    /\ Idle(p)
    /\ sqlite_sequence < MaxId
    /\ \E args \in in.creates :
         \/ /\ \E f \in in.faults :            \* sqlite3.Error of the medium
                 Goto(p, "done", [op |-> "create", args |-> args,
                                  raised |-> f, fault |-> f])
            /\ UNCHANGED lock
         \/ /\ ~WriteLockFree                  \* busy: "database is locked"
            /\ Goto(p, "done", [op |-> "create", args |-> args,
                                raised |-> "locked"])
            /\ UNCHANGED lock
         \/ /\ WriteLockFree
            /\ ~ConstraintsOk(NewRow(0, args))  \* IntegrityError
            /\ Goto(p, "done", [op |-> "create", args |-> args,
                                raised |-> "integrity"])
            \* the connection is never closed: it keeps the lock it took
            /\ lock' = "leaked"
         \/ /\ WriteLockFree
            /\ ConstraintsOk(NewRow(0, args))
            /\ Goto(p, "create_inserted",
                    [op |-> "create", args |-> args,
                     conn |-> InsertMemory(Committed, args),
                     lastrowid |-> NextRowid(Committed)])
            /\ lock' = p
    /\ UNCHANGED <<dbvars, uploads, uuid_seq, deleted, issued, now>>

\* create_memory from conn.commit() to return memory_id; or conn.commit()
\* raises (the medium is unavailable): the except block re-raises and the
\* connection, with its INSERT, stays open until it is collected.
CreateCommit(p, in) ==
    /\ pc[p] = "create_inserted"
    /\ \/ /\ Commit(frame[p].conn)
          /\ issued' = Append(issued, frame[p].lastrowid)
          /\ Goto(p, "done", [op |-> "create", args |-> frame[p].args,
                              raised |-> "none", ret |-> frame[p].lastrowid])
       \/ /\ \E f \in in.faults :
                Goto(p, "done", [op |-> "create", args |-> frame[p].args,
                                 raised |-> f, fault |-> f])
          /\ lock' = "leaked"
          /\ UNCHANGED <<dbvars, issued>>
    /\ UNCHANGED <<uploads, uuid_seq, deleted, now>>

\* get_memory_by_id
GetMemory(p, in) ==
    /\ Idle(p)
    /\ \E id \in in.ids :
         \/ Goto(p, "done", [op |-> "get", memory_id |-> id, raised |-> "none",
                             ret |-> get_memory_by_id(memories, id)])
         \/ \E f \in in.faults :               \* sqlite3.Error of the medium
               Goto(p, "done", [op |-> "get", memory_id |-> id,
                                raised |-> f, fault |-> f])
    /\ UNCHANGED <<dbvars, lock, uploads, uuid_seq, deleted, issued, now>>

\* search_memories(query, limit); the default limit stands for a call that
\* passes none.
Search(p, in) ==
    /\ Idle(p)
    /\ \E q \in in.queries, limit \in in.limits :
         \/ \E order \in RankOrders(memories, memories_fts, q) :
               LET r == search_memories(memories, memories_fts, q, limit, order)
               IN  Goto(p, "done", [op |-> "search", query |-> q,
                                    limit |-> limit,
                                    raised |-> r.raised, ret |-> r.results])
         \/ \E f \in in.faults :               \* sqlite3.Error of the medium
               Goto(p, "done", [op |-> "search", query |-> q, limit |-> limit,
                                raised |-> f, fault |-> f])
    /\ UNCHANGED <<dbvars, lock, uploads, uuid_seq, deleted, issued, now>>


\* uvicorn.run serves every request on one event-loop thread.  upload_memory
\* is a coroutine on that thread and leaves it only where an await suspends:
\* in file.read() and in run_in_executor.  At every other position the
\* thread is running this request: the OCR and EXIF calls, the scoring and
\* create_memory are plain calls.
OnEventLoop == {"upload_saved", "upload_routed", "upload_scored",
                "upload_inserted", "upload_failed"}

\* The event-loop thread is not running another caller's request.
LoopFree(p) == \A q \in Callers \ {p} : pc[q] \notin OnEventLoop

\* get_all_memories(limit, offset)
GetAllMemories(p, in) ==
    /\ Idle(p)
    /\ \E limit \in in.limits, offset \in in.offsets :
         \/ Goto(p, "done", [op |-> "list", limit |-> limit, offset |-> offset,
                             raised |-> "none",
                             ret |-> get_all_memories(memories, limit, offset)])
         \/ \E f \in in.faults :               \* sqlite3.Error of the medium
               Goto(p, "done", [op |-> "list", limit |-> limit,
                                offset |-> offset, raised |-> f, fault |-> f])
    /\ UNCHANGED <<dbvars, lock, uploads, uuid_seq, deleted, issued, now>>

\* list_memories (GET /api/memories?limit=..&offset=..)
ListEndpoint(p, in) ==
    /\ Idle(p)
    /\ LoopFree(p)
    /\ \E limit \in in.limits, offset \in in.offsets :
         Goto(p, "done", [op |-> "list_api", limit |-> limit,
                          offset |-> offset]
                         @@ list_memories(memories, limit, offset))
    /\ UNCHANGED <<dbvars, lock, uploads, uuid_seq, deleted, issued, now>>


\* The dictionary get_database_stats returns from its except block.
StatsOnError(f) == [raised |-> "none", ret |-> <<>>]

\* get_database_stats up to total_memories; any exception is caught, printed
\* and answered with an empty dictionary.
StatsTotal(p, in) ==
    /\ Idle(p)
    /\ \/ Goto(p, "stats_counted",
               [op |-> "stats", total_memories |-> CountAll(memories)])
       \/ \E f \in in.faults :                 \* sqlite3.Error of the medium
             Goto(p, "done", [op |-> "stats", fault |-> f] @@ StatsOnError(f))
    /\ UNCHANGED <<dbvars, lock, uploads, uuid_seq, deleted, issued, now>>

\* get_database_stats: by_type.
StatsByType(p) ==
    /\ pc[p] = "stats_counted"
    /\ Goto(p, "stats_grouped", frame[p] @@ [by_type |-> CountByType(memories)])
    /\ UNCHANGED <<dbvars, lock, uploads, uuid_seq, deleted, issued, now>>

\* get_database_stats: avg_sentiment, the size of the database file (in
\* hundredths of a MB), and the returned dictionary.
StatsAverage(p, in) ==
    /\ pc[p] = "stats_grouped"
    /\ \E up \in BOOLEAN, size \in in.db_sizes :
         Goto(p, "done",
              [op |-> "stats", raised |-> "none",
               ret |-> [total_memories |-> frame[p].total_memories,
                        by_type |-> frame[p].by_type,
                        average_sentiment |-> AverageSentiment(memories, up),
                        database_size_mb |-> size]])
    /\ UNCHANGED <<dbvars, lock, uploads, uuid_seq, deleted, issued, now>>


\* update_memory up to and including cursor.execute(UPDATE); without any
\* updatable key it returns False before touching the database.
UpdateExecute(p, in) ==
    /\ Idle(p)
    /\ \E id \in in.ids, kwargs \in in.updates :
         LET call == [op |-> "update", memory_id |-> id, kwargs |-> kwargs]
         IN
         \/ /\ SetClauses(kwargs) = {}
            /\ Goto(p, "done", call @@ [raised |-> "none", ret |-> FALSE])
            /\ UNCHANGED lock
         \/ /\ SetClauses(kwargs) # {}
            /\ ~WriteLockFree
            /\ Goto(p, "done", call @@ [raised |-> "locked"])
            /\ UNCHANGED lock
         \/ /\ SetClauses(kwargs) # {}
            /\ \E f \in in.faults :            \* sqlite3.Error of the medium
                 Goto(p, "done", call @@ [raised |-> f, fault |-> f])
            /\ UNCHANGED lock
         \/ /\ SetClauses(kwargs) # {}
            /\ WriteLockFree
            /\ id \in DOMAIN memories
            /\ ~ConstraintsOk(UpdatedRow(memories[id], kwargs))
            /\ Goto(p, "done", call @@ [raised |-> "integrity"])
            /\ lock' = "leaked"
         \/ /\ SetClauses(kwargs) # {}
            /\ WriteLockFree
            /\ id \in DOMAIN memories => ConstraintsOk(UpdatedRow(memories[id], kwargs))
            /\ Goto(p, "update_executed",
                    call @@ [conn |-> UpdateMemories(Committed, id, kwargs),
                             rowcount |-> IF id \in DOMAIN memories THEN 1 ELSE 0,
                             before |-> get_memory_by_id(memories, id)])
            /\ lock' = p
    /\ UNCHANGED <<dbvars, uploads, uuid_seq, deleted, issued, now>>

\* update_memory from conn.commit() to return success.
UpdateCommit(p) ==
    /\ pc[p] = "update_executed"
    /\ Commit(frame[p].conn)
    /\ Goto(p, "done", [op |-> "update", memory_id |-> frame[p].memory_id,
                        kwargs |-> frame[p].kwargs, before |-> frame[p].before,
                        raised |-> "none", ret |-> frame[p].rowcount > 0])
    /\ UNCHANGED <<uploads, uuid_seq, deleted, issued, now>>

\* delete_memory: SELECT media_path FROM memories WHERE id = ?
DeleteSelect(p, in) ==
    /\ Idle(p)
    /\ \E id \in in.ids :
         LET call == [op |-> "delete", memory_id |-> id]
         IN  \/ IF id \in DOMAIN memories
                THEN Goto(p, "delete_selected",
                          call @@ [media_path |-> memories[id].media_path])
                ELSE Goto(p, "done", call @@ [raised |-> "none", ret |-> FALSE])
             \/ \E f \in in.faults :           \* sqlite3.Error of the medium
                   Goto(p, "done", call @@ [raised |-> f, fault |-> f])
    /\ UNCHANGED <<dbvars, lock, uploads, uuid_seq, deleted, issued, now>>

\* delete_memory: cursor.execute(DELETE)
DeleteExecute(p) ==
    /\ pc[p] = "delete_selected"
    /\ LET call == [op |-> "delete", memory_id |-> frame[p].memory_id]
       IN
       \/ /\ ~WriteLockFree
          /\ Goto(p, "done", call @@ [raised |-> "locked"])
          /\ UNCHANGED lock
       \/ /\ WriteLockFree
          /\ Goto(p, "delete_executed",
                  frame[p] @@
                  [conn |-> DeleteFromMemories(Committed, frame[p].memory_id),
                   rowcount |-> IF frame[p].memory_id \in DOMAIN memories
                                THEN 1 ELSE 0])
          /\ lock' = p
    /\ UNCHANGED <<dbvars, uploads, uuid_seq, deleted, issued, now>>

\* delete_memory: conn.commit(); conn.close()
DeleteCommit(p) ==
    /\ pc[p] = "delete_executed"
    /\ Commit(frame[p].conn)
    /\ IF frame[p].rowcount > 0
       THEN Goto(p, "delete_committed",
                 [op |-> "delete", memory_id |-> frame[p].memory_id,
                  media_path |-> frame[p].media_path])
       ELSE Goto(p, "done", [op |-> "delete", memory_id |-> frame[p].memory_id,
                             raised |-> "none", ret |-> FALSE])
    /\ UNCHANGED <<uploads, uuid_seq, deleted, issued, now>>

\* delete_memory: os.path.exists / os.remove on the row's media_path (a failing
\* os.remove is caught and printed), then return True.
DeleteMedia(p) ==
    /\ pc[p] = "delete_committed"
    /\ \E removed \in {"absent", "done", "raised"} :
         /\ removed = "absent" <=> frame[p].media_path \notin uploads
         /\ uploads' = IF removed = "done"
                       THEN uploads \ {frame[p].media_path} ELSE uploads
         /\ Goto(p, "done", [op |-> "delete", memory_id |-> frame[p].memory_id,
                             media_path |-> frame[p].media_path,
                             removed |-> removed,
                             raised |-> "none", ret |-> TRUE])
    /\ deleted' = deleted \cup {frame[p].memory_id}
    /\ UNCHANGED <<dbvars, lock, uuid_seq, issued, now>>

\* The caller takes the outcome of its operation and is free to start another.
Return(p) ==
    /\ pc[p] = "done"
    /\ Goto(p, "idle", [op |-> "none"])
    /\ UNCHANGED <<dbvars, lock, uploads, uuid_seq, deleted, issued, now>>

\* A second passes.
Tick ==
    /\ now < MaxClock
    /\ now' = now + 1
    /\ UNCHANGED <<dbvars, lock, uploads, uuid_seq, pc, frame, deleted, issued>>

\* The garbage collector finalizes a connection that an exception left open:
\* its transaction is rolled back and its lock released.
CollectGarbage ==
    /\ lock = "leaked"
    /\ lock' = "free"
    /\ UNCHANGED <<dbvars, uploads, uuid_seq, pc, frame, deleted, issued, now>>


(***************************************************************************)
(* upload_memory (app.py).                                                 *)
(***************************************************************************)
\* A declared content type "main/sub"; file.content_type may be absent.
NoContentType == [main |-> "", sub |-> ""]

is_image(ct) == ct.main = "image"       \* content_type.startswith('image/')
is_audio(ct) == ct.main = "audio"       \* content_type.startswith('audio/')

\* UPLOAD_DIR / safe_filename, and the media_path handed to create_memory.
UploadPath(n) == [root |-> "uploads", name |-> n]
MediaUrl(n) == [root |-> "/media/uploads", name |-> n]

\* The HTTPException a failed validation raises inside the try block.
ValidationError(ct) ==
    IF ct = NoContentType
    THEN [status |-> 400, detail |-> "File type not detected"]
    ELSE [status |-> 400,
          detail |-> "Only image (JPEG, PNG) and audio (MP3, WAV) files are supported"]

\* except Exception as e: ... raise HTTPException(status_code=500, ...).
\* HTTPException is an Exception, so this handler also takes the ones the try
\* block raised itself.
UploadFailure(e) == [status |-> 500, detail |-> "Upload failed", cause |-> e]

\* str.strip(): leading and trailing whitespace removed.
RECURSIVE LStrip(_)
LStrip(s) == IF s # <<>> /\ Head(s) = " " THEN LStrip(Tail(s)) ELSE s

RECURSIVE RStrip(_)
RStrip(s) ==
    IF s # <<>> /\ s[Len(s)] = " " THEN RStrip(SubSeq(s, 1, Len(s) - 1)) ELSE s

Strip_none(s) == s

Strip(s) == RStrip(LStrip(s))

\* Scores are counted in hundredths.  What a scorer does with a text is an
\* outcome [raised, value]: it raises, or returns value.
\* get_textblob_sentiment / get_vader_sentiment: a scorer that raises counts
\* as 0.0.
get_textblob_sentiment(o) == IF o.raised THEN 0 ELSE o.value

get_vader_sentiment(o) == IF o.raised THEN 0 ELSE o.value

\* not text or not text.strip()
IsBlank(text) == text = NULL \/ Strip(text) = <<>>

\* clean_text_for_sentiment on texts without URLs, addresses and punctuation.
clean_text_for_sentiment(text) == IF IsBlank(text) THEN <<>> ELSE Strip(text)

\* round(final_score, 2) of sum / 2: a sum that is odd lies on a tie between
\* two hundredths, and the float nearest to it lies on either side of the tie.
Round2_undivided(sum, up) == sum

Round2(sum, up) ==
    IF sum % 2 = 0 THEN sum \div 2
    ELSE IF up THEN (sum + 1) \div 2 ELSE (sum - 1) \div 2

\* analyze_sentiment(text); s gives the two scorers' outcomes for the cleaned
\* text and the side of a tie.
analyze_sentiment(text, s) ==
    IF IsBlank(text) THEN 0
    ELSE IF clean_text_for_sentiment(text) = <<>> THEN 0
    ELSE Round2(get_textblob_sentiment(s.tb) + get_vader_sentiment(s.vd), s.up)

\* `analyze_sentiment(extracted_text) if extracted_text else 0.0`: whether the
\* scorer is called at all.
InvokesScorer_always(text) == TRUE

InvokesScorer(text) == Truthy(text)

SentimentScore(text, s) ==
    IF InvokesScorer(text) THEN analyze_sentiment(text, s) ELSE 0

\* title: str = Form(...): FastAPI answers 422 to a request whose title is
\* missing or empty, and never calls upload_memory.
RejectRequest(p, req) ==
    /\ ~Truthy(req.title)
    /\ Goto(p, "done", req @@ [status |-> 422, detail |-> "Field required",
                               file_path |-> NoPath, stage |-> "request"])
    /\ UNCHANGED <<uploads, uuid_seq>>

\* A validation that fails only after the file was opened.
RejectValidation_afteropen(p, req) ==
    /\ Truthy(req.title)
    /\ ~(is_image(req.content_type) \/ is_audio(req.content_type))
    /\ uuid_seq < MaxUploads
    /\ uuid_seq' = uuid_seq + 1
    /\ uploads' = uploads \cup {UploadPath(uuid_seq + 1)}
    /\ Goto(p, "done", req @@ UploadFailure(ValidationError(req.content_type))
                           @@ [file_path |-> NoPath, stage |-> "validation"])

\* The content type is absent, or neither image/* nor audio/*: the
\* HTTPException is raised before file_path is assigned, and the except block
\* turns it into its own.
RejectValidation(p, req) ==
    /\ Truthy(req.title)
    /\ ~(is_image(req.content_type) \/ is_audio(req.content_type))
    /\ Goto(p, "done", req @@ UploadFailure(ValidationError(req.content_type))
                           @@ [file_path |-> NoPath, stage |-> "validation"])
    /\ UNCHANGED <<uploads, uuid_seq>>

\* The generated file name, open(file_path, "wb"), which creates the file,
\* and the suspension in await file.read().
OpenBlob(p, req) ==
    /\ Truthy(req.title)
    /\ is_image(req.content_type) \/ is_audio(req.content_type)
    /\ uuid_seq < MaxUploads
    /\ uuid_seq' = uuid_seq + 1
    /\ uploads' = uploads \cup {UploadPath(uuid_seq + 1)}
    /\ Goto(p, "upload_reading",
            req @@ [file_path |-> UploadPath(uuid_seq + 1),
                    safe_filename |-> uuid_seq + 1])

\* max_size = 25 * 1024 * 1024 of validate_audio_file, which upload_memory
\* does not call.
max_size == 26214400

\* A request arrives at POST /api/upload.
UploadReceive(p, in) ==
    /\ Idle(p)
    /\ LoopFree(p)
    /\ \E ct \in in.content_types, t \in in.form_titles, q \in in.persons,
          n \in in.sizes :
         LET req == [op |-> "upload", content_type |-> ct, title |-> t,
                     person |-> q, size |-> n]
         IN  \/ RejectRequest(p, req)
             \/ RejectValidation(p, req)
             \/ OpenBlob(p, req)
    /\ UNCHANGED <<dbvars, lock, deleted, issued, now>>

\* content = await file.read(); buffer.write(content); the file is closed.
UploadSave(p) ==
    /\ pc[p] = "upload_reading"
    /\ LoopFree(p)
    /\ \/ Goto(p, "upload_saved", frame[p])
       \/ Goto(p, "upload_failed", frame[p] @@ [stage |-> "save"])  \* OSError
    /\ UNCHANGED <<dbvars, lock, uploads, uuid_seq, deleted, issued, now>>

\* Where upload_memory goes on after an extractor returned: the extractors
\* catch every Exception themselves, so a failed one returns like any other.
AfterExtraction_abort(failed) ==
    IF failed THEN "upload_failed" ELSE "upload_routed"

AfterExtraction(failed) == "upload_routed"

\* extracted_text, extracted_date, extracted_location are assigned.
Extracted(p, text, failed, date, location) ==
    LET locals == frame[p] @@ [extracted_text |-> text,
                               extract_failed |-> failed,
                               extracted_date |-> date,
                               extracted_location |-> location]
    IN  IF AfterExtraction(failed) = "upload_failed"
        THEN Goto(p, "upload_failed", locals @@ [stage |-> "extract"])
        ELSE Goto(p, AfterExtraction(failed), locals)

\* OCR and EXIF for an image, both synchronous.  For audio, transcribe_audio
\* up to its await: it fails at once (no file, no model) or waits for the
\* executor.  A failed OCR or ASR returns a message in place of the text; a
\* failed EXIF read returns no date and no location.
UploadExtract(p, in) ==
    /\ pc[p] = "upload_saved"
    /\ IF is_image(frame[p].content_type)
       THEN \E m \in in.exif :
              \/ \E x \in in.ocr_texts :
                    Extracted(p, x, FALSE, m.date, m.location)
              \/ Extracted(p, Str_failed, TRUE, m.date, m.location)
       ELSE \/ Extracted(p, Str_failed, TRUE, "None", "None")
            \/ Goto(p, "upload_transcribing", frame[p])
    /\ UNCHANGED <<dbvars, lock, uploads, uuid_seq, deleted, issued, now>>

\* await loop.run_in_executor(None, lambda: model.transcribe(audio_path))
\* returns or raises inside transcribe_audio.
UploadTranscribed(p, in) ==
    /\ pc[p] = "upload_transcribing"
    /\ LoopFree(p)
    /\ \/ \E x \in in.asr_texts : Extracted(p, x, FALSE, "None", "None")
       \/ Extracted(p, Str_failed, TRUE, "None", "None")
    /\ UNCHANGED <<dbvars, lock, uploads, uuid_seq, deleted, issued, now>>

\* The request's task is cancelled while it is suspended in an await:
\* asyncio.CancelledError is no Exception, so neither transcribe_audio's nor
\* upload_memory's except block runs; the with block closes the file.
UploadCancel(p) ==
    /\ pc[p] \in {"upload_reading", "upload_transcribing"}
    /\ Goto(p, "done",
            [op |-> "upload", content_type |-> frame[p].content_type,
             title |-> frame[p].title, person |-> frame[p].person,
             size |-> frame[p].size,
             file_path |-> frame[p].file_path, stage |-> "cancelled",
             at |-> pc[p], status |-> 0, detail |-> "CancelledError"])
    /\ UNCHANGED <<dbvars, lock, uploads, uuid_seq, deleted, issued, now>>

\* sentiment_score = analyze_sentiment(extracted_text) if extracted_text else 0.0
UploadScore(p, in) ==
    /\ pc[p] = "upload_routed"
    /\ \E s \in in.scores :
         Goto(p, "upload_scored",
              frame[p] @@ [sentiment_score |->
                               SentimentScore(frame[p].extracted_text, s),
                           scorer_called |->
                               InvokesScorer(frame[p].extracted_text)])
    /\ UNCHANGED <<dbvars, lock, uploads, uuid_seq, deleted, issued, now>>

\* The arguments upload_memory passes to create_memory.
UploadArgs(f) ==
    [title |-> f.title, text |-> f.extracted_text, date |-> f.extracted_date,
     location |-> f.extracted_location, sentiment |-> f.sentiment_score,
     media_path |-> MediaUrl(f.safe_filename),
     media_type |-> IF is_image(f.content_type) THEN "image" ELSE "audio",
     person |-> f.person]

\* create_memory called by upload_memory, up to cursor.execute(INSERT).
UploadInsert(p) ==
    /\ pc[p] = "upload_scored"
    /\ sqlite_sequence < MaxId
    /\ LET args == UploadArgs(frame[p])
       IN
       \/ /\ ~WriteLockFree
          /\ Goto(p, "upload_failed", frame[p] @@ [stage |-> "create"])
          /\ UNCHANGED lock
       \/ /\ WriteLockFree
          /\ ~ConstraintsOk(NewRow(0, args))
          /\ Goto(p, "upload_failed", frame[p] @@ [stage |-> "create"])
          /\ lock' = "leaked"
       \/ /\ WriteLockFree
          /\ ConstraintsOk(NewRow(0, args))
          /\ Goto(p, "upload_inserted",
                  frame[p] @@ [conn |-> InsertMemory(Committed, args),
                               lastrowid |-> NextRowid(Committed)])
          /\ lock' = p
    /\ UNCHANGED <<dbvars, uploads, uuid_seq, deleted, issued, now>>

\* The "memory" object of the success response.
UploadResponse(f) ==
    [id |-> f.lastrowid, title |-> f.title, text |-> f.extracted_text,
     date |-> f.extracted_date, location |-> f.extracted_location,
     sentiment |-> f.sentiment_score,
     media_path |-> MediaUrl(f.safe_filename),
     media_type |-> IF is_image(f.content_type) THEN "image" ELSE "audio"]

\* create_memory's conn.commit() and the success response; or the commit
\* fails (the medium is unavailable) and the connection stays open.
UploadCommit(p) ==
    /\ pc[p] = "upload_inserted"
    /\ \/ /\ Commit(frame[p].conn)
          /\ issued' = Append(issued, frame[p].lastrowid)
          /\ Goto(p, "done",
                  [op |-> "upload", content_type |-> frame[p].content_type,
                   title |-> frame[p].title, person |-> frame[p].person,
                   size |-> frame[p].size,
                   file_path |-> frame[p].file_path, stage |-> "committed",
                   extract_failed |-> frame[p].extract_failed,
                   scorer_called |-> frame[p].scorer_called,
                   status |-> 200, detail |-> "ok",
                   memory |-> UploadResponse(frame[p])])
       \/ /\ lock' = "leaked"
          /\ Goto(p, "upload_failed",
                  [k \in DOMAIN frame[p] \ {"conn", "lastrowid"} |-> frame[p][k]]
                  @@ [stage |-> "create"])
          /\ UNCHANGED <<dbvars, issued>>
    /\ UNCHANGED <<uploads, uuid_seq, deleted, now>>

\* file_path.unlink()
Unlink_noop(files, path) == files

Unlink(files, path) == files \ {path}

\* The except block after the file was opened: unlink the file if it exists,
\* then raise HTTPException(500).  An exception of unlink leaves the block.
UploadCleanup(p) ==
    /\ pc[p] = "upload_failed"
    /\ LET req == [op |-> "upload", content_type |-> frame[p].content_type,
                   title |-> frame[p].title, person |-> frame[p].person,
                   size |-> frame[p].size,
                   file_path |-> frame[p].file_path, stage |-> frame[p].stage]
       IN
       \/ /\ uploads' = Unlink(uploads, frame[p].file_path)
          /\ Goto(p, "done", req @@ UploadFailure(frame[p].stage)
                                 @@ [unlink |-> "done"])
       \/ /\ frame[p].file_path \in uploads      \* file_path.unlink() raised
          /\ UNCHANGED uploads
          /\ Goto(p, "done", req @@ [status |-> 500,
                                     detail |-> "Internal Server Error",
                                     unlink |-> "raised"])
    /\ UNCHANGED <<dbvars, lock, uuid_seq, deleted, issued, now>>

\* search_memory (GET /api/search?q=...): a request without q is refused by
\* the framework; a q that is empty after strip() raises HTTPException(400),
\* which `except HTTPException: raise` passes on; otherwise search_memories
\* runs on the stripped q, and any exception of it becomes a 500.
SearchEndpoint(p, in) ==
    /\ Idle(p)
    /\ LoopFree(p)
    /\ \E q \in in.queries :
         \E order \in RankOrders(memories, memories_fts,
                                 IF q = NULL THEN <<>> ELSE Strip(q)) :
         LET call == [op |-> "search_api", q |-> q]
             r == search_memories(memories, memories_fts, Strip(q),
                                  DefaultLimit, order)
         IN  IF q = NULL
             THEN Goto(p, "done", call @@ [status |-> 422, queried |-> FALSE,
                                           detail |-> "Field required"])
             ELSE IF Strip(q) = <<>>
             THEN Goto(p, "done", call @@ [status |-> 400, queried |-> FALSE,
                                           detail |-> "Search query cannot be empty"])
             ELSE IF r.raised # "none"
             THEN Goto(p, "done", call @@ [status |-> 500, queried |-> TRUE,
                                           detail |-> "Search failed"])
             ELSE Goto(p, "done", call @@ [status |-> 200, queried |-> TRUE,
                                           detail |-> "ok",
                                           results |-> r.results])
    /\ UNCHANGED <<dbvars, lock, uploads, uuid_seq, deleted, issued, now>>

(***************************************************************************)
(* Specifications.                                                         *)
(***************************************************************************)
InitWith(callers) ==
    /\ memories = <<>>
    /\ sqlite_sequence = 0
    /\ memories_fts = {}
    /\ lock = "free"
    /\ uploads = {}
    /\ uuid_seq = 0
    /\ pc = [p \in callers |-> "idle"]
    /\ frame = [p \in callers |-> [op |-> "none"]]
    /\ deleted = {}
    /\ issued = <<>>
    /\ now = 0

TestPath == [root |-> "/test", name |-> 1]
OtherPath == [root |-> "/test", name |-> 2]

\* One caller of the store; text values that exercise the index.
StoreIn ==
    [faults   |-> {},
     creates  |-> {[title |-> Str_a, text |-> Str_bc, person |-> NULL,
                    date |-> "None", location |-> "None", sentiment |-> 0,
                    media_path |-> TestPath, media_type |-> "image"],
                   [title |-> Str_b, text |-> NULL, person |-> Str_d,
                    date |-> "2024-01-01", location |-> "GPS", sentiment |-> 50,
                    media_path |-> OtherPath, media_type |-> "audio"],
                   [title |-> NULL, text |-> NULL, person |-> NULL,
                    date |-> "None", location |-> "None", sentiment |-> 0,
                    media_path |-> TestPath, media_type |-> "image"]},
     updates  |-> {[title |-> Str_b], [title |-> NULL], [text |-> Str_empty],
                   [person |-> Str_d], [media_type |-> "audio"]},
     queries  |-> {Str_a, Str_b, Str_c, Str_d, Str_bc, <<"-">>},
     limits   |-> {DefaultLimit},
     ids      |-> 1..MaxId]

\* Two callers of the store running in parallel; short values.
ConcIn ==
    [faults   |-> {},
     creates  |-> {[title |-> Str_a, text |-> NULL, person |-> NULL,
                    date |-> "None", location |-> "None", sentiment |-> 0,
                    media_path |-> TestPath, media_type |-> "image"],
                   [title |-> Str_b, text |-> NULL, person |-> NULL,
                    date |-> "None", location |-> "None", sentiment |-> 50,
                    media_path |-> OtherPath, media_type |-> "audio"],
                   [title |-> Str_a, text |-> NULL, person |-> NULL,
                    date |-> "None", location |-> "None", sentiment |-> 0,
                    media_path |-> TestPath, media_type |-> "video"]},
     updates  |-> {[title |-> Str_b]},
     queries  |-> {Str_a},
     limits   |-> {DefaultLimit},
     ids      |-> 1..MaxId]

StoreNext(in) ==
    \/ \E p \in Callers : CreateInsert(p, in)
    \/ \E p \in Callers : CreateCommit(p, in)
    \/ \E p \in Callers : GetMemory(p, in)
    \/ \E p \in Callers : Search(p, in)
    \/ \E p \in Callers : UpdateExecute(p, in)
    \/ \E p \in Callers : UpdateCommit(p)
    \/ \E p \in Callers : DeleteSelect(p, in)
    \/ \E p \in Callers : DeleteExecute(p)
    \/ \E p \in Callers : DeleteCommit(p)
    \/ \E p \in Callers : DeleteMedia(p)
    \/ \E p \in Callers : Return(p)
    \/ CollectGarbage

Init == InitWith({"p1"})

Next == StoreNext(StoreIn)

Spec == Init /\ [][Next]_vars

InitConc == InitWith({"p1", "p2"})

NextConc == StoreNext(ConcIn)

SpecConc == InitConc /\ [][NextConc]_vars


\* Requests to the upload endpoint, one at a time.
UploadIn ==
    [faults   |-> {},
     content_types |-> {[main |-> "image", sub |-> "jpeg"],
                        [main |-> "audio", sub |-> "wav"],
                        [main |-> "text", sub |-> "plain"],
                        NoContentType},
     form_titles   |-> {NULL, Str_empty, Str_a},
     persons       |-> {NULL, Str_d},
     sizes         |-> {1},
     ocr_texts     |-> {Str_bc, Str_empty},
     asr_texts     |-> {Str_bc, Str_empty},
     exif          |-> {[date |-> "None", location |-> "None"],
                        [date |-> "2024-01-01", location |-> "GPS"]},
     scores        |-> {[tb |-> [raised |-> FALSE, value |-> 50],
                         vd |-> [raised |-> FALSE, value |-> 100], up |-> TRUE],
                        [tb |-> [raised |-> TRUE, value |-> 0],
                         vd |-> [raised |-> FALSE, value |-> -100],
                         up |-> FALSE]},
     queries       |-> {NULL, Str_empty, <<" ">>, <<" ", " ">>, Str_bc,
                        <<" ", "a", " ">>, <<"-">>},
     ids           |-> 1..MaxId]

InitUpload == InitWith({"p1"})

NextUpload ==
    \/ \E p \in Callers : UploadReceive(p, UploadIn)
    \/ \E p \in Callers : UploadSave(p)
    \/ \E p \in Callers : UploadExtract(p, UploadIn)
    \/ \E p \in Callers : UploadTranscribed(p, UploadIn)
    \/ \E p \in Callers : UploadCancel(p)
    \/ \E p \in Callers : UploadScore(p, UploadIn)
    \/ \E p \in Callers : UploadInsert(p)
    \/ \E p \in Callers : UploadCommit(p)
    \/ \E p \in Callers : UploadCleanup(p)
    \/ \E p \in Callers : GetMemory(p, UploadIn)
    \/ \E p \in Callers : SearchEndpoint(p, UploadIn)
    \/ \E p \in Callers : Return(p)
    \/ CollectGarbage

SpecUpload == InitUpload /\ [][NextUpload]_vars


\* Two requests to the upload endpoint of one server process.
LoopIn ==
    [content_types |-> {[main |-> "image", sub |-> "jpeg"],
                        [main |-> "audio", sub |-> "wav"]},
     form_titles   |-> {Str_a},
     persons       |-> {NULL},
     sizes         |-> {1},
     ocr_texts     |-> {Str_bc},
     asr_texts     |-> {Str_bc},
     exif          |-> {[date |-> "None", location |-> "None"]},
     scores        |-> {[tb |-> [raised |-> FALSE, value |-> 50],
                         vd |-> [raised |-> FALSE, value |-> 100], up |-> TRUE]},
     queries       |-> {Str_a}]

InitLoop == InitWith({"p1", "p2"})

NextLoop ==
    \/ \E p \in Callers : UploadReceive(p, LoopIn)
    \/ \E p \in Callers : UploadSave(p)
    \/ \E p \in Callers : UploadExtract(p, LoopIn)
    \/ \E p \in Callers : UploadTranscribed(p, LoopIn)
    \/ \E p \in Callers : UploadScore(p, LoopIn)
    \/ \E p \in Callers : UploadInsert(p)
    \/ \E p \in Callers : UploadCommit(p)
    \/ \E p \in Callers : UploadCleanup(p)
    \/ \E p \in Callers : SearchEndpoint(p, LoopIn)
    \/ \E p \in Callers : Return(p)

SpecLoop == InitLoop /\ [][NextLoop]_vars


\* One caller uploading images, searching through the endpoint and deleting
\* records: the life of an uploaded record and of its blob.
LifeIn ==
    [faults   |-> {},
     content_types |-> {[main |-> "image", sub |-> "jpeg"]},
     form_titles   |-> {Str_a, Str_a_b},
     persons       |-> {NULL, Str_d},
     sizes         |-> {1, max_size + 1},
     ocr_texts     |-> {Str_bc},
     exif          |-> {[date |-> "None", location |-> "None"]},
     scores        |-> {[tb |-> [raised |-> FALSE, value |-> 50],
                         vd |-> [raised |-> FALSE, value |-> 100], up |-> TRUE]},
     queries       |-> {Str_a, Str_a_b, Str_b},
     ids           |-> 1..MaxId]

InitLife == InitWith({"p1"})

NextLife ==
    \/ \E p \in Callers : UploadReceive(p, LifeIn)
    \/ \E p \in Callers : UploadSave(p)
    \/ \E p \in Callers : UploadExtract(p, LifeIn)
    \/ \E p \in Callers : UploadScore(p, LifeIn)
    \/ \E p \in Callers : UploadInsert(p)
    \/ \E p \in Callers : UploadCommit(p)
    \/ \E p \in Callers : UploadCleanup(p)
    \/ \E p \in Callers : SearchEndpoint(p, LifeIn)
    \/ \E p \in Callers : DeleteSelect(p, LifeIn)
    \/ \E p \in Callers : DeleteExecute(p)
    \/ \E p \in Callers : DeleteCommit(p)
    \/ \E p \in Callers : DeleteMedia(p)
    \/ \E p \in Callers : Return(p)

SpecLife == InitLife /\ [][NextLife]_vars


\* Two callers: creates and deletes that commit while get_database_stats
\* runs its statements.
StatsIn ==
    [faults   |-> {},
     creates  |-> {[title |-> Str_a, text |-> NULL, person |-> NULL,
                    date |-> "None", location |-> "None", sentiment |-> 50,
                    media_path |-> TestPath, media_type |-> "image"],
                   [title |-> Str_b, text |-> NULL, person |-> NULL,
                    date |-> "None", location |-> "None", sentiment |-> -25,
                    media_path |-> OtherPath, media_type |-> "audio"]},
     db_sizes |-> {4},
     ids      |-> 1..MaxId]

InitStats == InitWith({"p1", "p2"})

NextStats ==
    \/ \E p \in Callers : CreateInsert(p, StatsIn)
    \/ \E p \in Callers : CreateCommit(p, StatsIn)
    \/ \E p \in Callers : DeleteSelect(p, StatsIn)
    \/ \E p \in Callers : DeleteExecute(p)
    \/ \E p \in Callers : DeleteCommit(p)
    \/ \E p \in Callers : DeleteMedia(p)
    \/ \E p \in Callers : StatsTotal(p, StatsIn)
    \/ \E p \in Callers : StatsByType(p)
    \/ \E p \in Callers : StatsAverage(p, StatsIn)
    \/ \E p \in Callers : Return(p)

SpecStats == InitStats /\ [][NextStats]_vars


\* One caller creating records while the clock advances, and reading them
\* back through search and through pages of the list, with limits and
\* offsets on both sides of zero.
QueryIn ==
    [faults   |-> {},
     creates  |-> {[title |-> Str_a, text |-> Str_bc, person |-> NULL,
                    date |-> "None", location |-> "None", sentiment |-> 0,
                    media_path |-> TestPath, media_type |-> "image"],
                   [title |-> Str_a, text |-> NULL, person |-> NULL,
                    date |-> "None", location |-> "None", sentiment |-> 0,
                    media_path |-> TestPath, media_type |-> "image"]},
     queries  |-> {Str_a, Str_b},
     limits   |-> {-1, 0, 1, DefaultLimit},
     offsets  |-> {-1, 0, 1, 2}]

InitQuery == InitWith({"p1"})

NextQuery ==
    \/ \E p \in Callers : CreateInsert(p, QueryIn)
    \/ \E p \in Callers : CreateCommit(p, QueryIn)
    \/ \E p \in Callers : Search(p, QueryIn)
    \/ \E p \in Callers : GetAllMemories(p, QueryIn)
    \/ \E p \in Callers : ListEndpoint(p, QueryIn)
    \/ \E p \in Callers : Return(p)
    \/ Tick

SpecQuery == InitQuery /\ [][NextQuery]_vars


\* One caller of every store operation on a medium that may fail, with
\* arguments the table's constraints accept and arguments they refuse.
MediumIn ==
    [faults   |-> {"medium"},
     creates  |-> {[title |-> Str_a, text |-> Str_bc, person |-> NULL,
                    date |-> "None", location |-> "None", sentiment |-> 0,
                    media_path |-> TestPath, media_type |-> "image"],
                   [title |-> Str_a, text |-> NULL, person |-> NULL,
                    date |-> "None", location |-> "None", sentiment |-> 0,
                    media_path |-> TestPath, media_type |-> "video"],
                   [title |-> Str_empty, text |-> NULL, person |-> NULL,
                    date |-> "None", location |-> "None", sentiment |-> 0,
                    media_path |-> TestPath, media_type |-> "audio"]},
     updates  |-> {[title |-> Str_b], [title |-> Str_empty]},
     queries  |-> {Str_a},
     limits   |-> {DefaultLimit},
     offsets  |-> {0},
     db_sizes |-> {4},
     ids      |-> 1..MaxId]

InitMedium == InitWith({"p1"})

NextMedium ==
    \/ StoreNext(MediumIn)
    \/ \E p \in Callers : GetAllMemories(p, MediumIn)
    \/ \E p \in Callers : StatsTotal(p, MediumIn)
    \/ \E p \in Callers : StatsByType(p)
    \/ \E p \in Callers : StatsAverage(p, MediumIn)

SpecMedium == InitMedium /\ [][NextMedium]_vars


\* One caller creating, updating and reading while the clock advances;
\* updates with keys inside and outside the allow-list, and scores outside
\* [-1.0, 1.0].
ClockIn ==
    [faults   |-> {},
     creates  |-> {[title |-> Str_a, text |-> Str_bc, person |-> NULL,
                    date |-> "None", location |-> "None", sentiment |-> 0,
                    media_path |-> TestPath, media_type |-> "image"]},
     updates  |-> {[sentiment |-> -500],
                   [media_type |-> "audio"],
                   [id |-> 2, media_type |-> "audio", media_path |-> OtherPath,
                    created_at |-> 1, person |-> Str_d]},
     ids      |-> 1..MaxId]

InitClock == InitWith({"p1"})

NextClock ==
    \/ \E p \in Callers : CreateInsert(p, ClockIn)
    \/ \E p \in Callers : CreateCommit(p, ClockIn)
    \/ \E p \in Callers : UpdateExecute(p, ClockIn)
    \/ \E p \in Callers : UpdateCommit(p)
    \/ \E p \in Callers : GetMemory(p, ClockIn)
    \/ \E p \in Callers : Return(p)
    \/ Tick

SpecClock == InitClock /\ [][NextClock]_vars


\* Calls of analyze_sentiment: texts, what each scorer does, side of a tie.
ScorerOutcomes ==
    {[raised |-> TRUE, value |-> 0]} \cup
    {[raised |-> FALSE, value |-> v] : v \in {-100, -99, 0, 1, 100}}

SentimentIn ==
    [texts  |-> {NULL, Str_empty, <<" ">>, Str_bc, <<" ", "a", " ">>, Str_failed},
     scores |-> [tb : ScorerOutcomes, vd : ScorerOutcomes, up : BOOLEAN]]

\* analyze_sentiment(text)
Analyze(p, in) ==
    /\ Idle(p)
    /\ \E t \in in.texts, s \in in.scores :
         Goto(p, "done", [op |-> "analyze", text |-> t, s |-> s,
                          ret |-> analyze_sentiment(t, s)])
    /\ UNCHANGED <<dbvars, lock, uploads, uuid_seq, deleted, issued, now>>

InitSentiment == InitWith({"p1"})

NextSentiment ==
    \/ \E p \in Callers : Analyze(p, SentimentIn)
    \/ \E p \in Callers : Return(p)

SpecSentiment == InitSentiment /\ [][NextSentiment]_vars

(***************************************************************************)
(* Properties of the store (db.py).                                        *)
(***************************************************************************)
\* The rowids the index lists, as SELECT rowid FROM memories_fts WHERE
\* memories_fts MATCH term reads them.
IndexIds == { e.rowid : e \in memories_fts }

\* C1: the ids in the record table and the ids in the search index are the
\* same set in every committed state, whatever creates, updates and deletes
\* came before.
C1_IndexIdsEqualRecordIds == IndexIds = DOMAIN memories

CreateKeys ==
    {"title", "text", "date", "location", "sentiment", "media_path",
     "media_type", "person"}

Created(p) ==
    pc[p] = "done" /\ frame[p].op = "create" /\ frame[p].raised = "none"

\* C2: when a create has returned an id, get_memory_by_id of that id finds a
\* row whose title, text, date, location, sentiment, media path, media type
\* and person are the values the create was given.
C2_GetReturnsCreated ==
    \A p \in Callers :
        Created(p) =>
            LET got == get_memory_by_id(memories, frame[p].ret)
            IN  /\ got.found
                /\ \A k \in CreateKeys : got.row[k] = frame[p].args[k]

\* A create given a text, a date, a location, a score and a person returned.
C2_Witness ==
    \E p \in Callers :
        /\ Created(p)
        /\ frame[p].args.person = Str_d
        /\ frame[p].args.sentiment = 50
        /\ get_memory_by_id(memories, frame[p].ret).row.location = "GPS"

\* C3: once delete_memory(id) has returned True, no get_memory_by_id(id)
\* finds a row and no search returns a result with that id.
C3_DeletedStaysGone ==
    \A p \in Callers :
        pc[p] = "done" =>
            /\ (frame[p].op = "get" /\ frame[p].memory_id \in deleted)
                   => ~frame[p].ret.found
            /\ frame[p].op = "search"
                   => \A i \in 1..Len(frame[p].ret) :
                          frame[p].ret[i].id \notin deleted

\* A search for a term of a deleted record, which the index still lists,
\* returned without it.
C3_Witness ==
    \E p \in Callers :
        /\ pc[p] = "done" /\ frame[p].op = "search" /\ frame[p].raised = "none"
        /\ \E e \in memories_fts :
              e.rowid \in deleted /\ QueryTerms(frame[p].query) = {e.term}

\* A get of a deleted id returned.
C3_WitnessGet ==
    \E p \in Callers :
        /\ pc[p] = "done" /\ frame[p].op = "get"
        /\ frame[p].memory_id \in deleted

Updated(p) ==
    /\ pc[p] = "done" /\ frame[p].op = "update"
    /\ frame[p].raised = "none" /\ frame[p].ret

\* C4: after an update that changed title, text or person has returned True,
\* a search for a term of the new values returns the record, and a search for
\* a term that only the replaced values contained does not.
C4_UpdateReindexes ==
    \A p \in Callers :
        (Updated(p) /\ frame[p].memory_id \in DOMAIN memories) =>
            LET id  == frame[p].memory_id
                old == TermsOf(frame[p].before.row)
                new == TermsOf(memories[id])
            IN  \A q \in StoreIn.queries :
                \A order \in RankOrders(memories, memories_fts, q) :
                    LET r == search_memories(memories, memories_fts, q,
                                             DefaultLimit, order)
                        ids == { r.results[i].id : i \in 1..Len(r.results) }
                    IN  /\ (QuerySyntaxOk(q) /\ QueryTerms(q) \subseteq new)
                            => r.raised = "none" /\ id \in ids
                        /\ (QuerySyntaxOk(q) /\ QueryTerms(q) \subseteq old
                                /\ QueryTerms(q) \cap new = {})
                            => id \notin ids


\* C5: the ids creates were given, in the order the creates committed, are
\* strictly increasing, and an id a create is about to return was given to
\* no earlier create, whether or not that record was deleted since.
C5_IdsNeverReused ==
    /\ \A i, j \in 1..Len(issued) : i < j => issued[i] < issued[j]
    /\ \A p \in Callers :
          pc[p] = "create_inserted" =>
              \A i \in 1..Len(issued) : issued[i] < frame[p].lastrowid

\* A create was given its id while the table was empty again after earlier
\* creates that committed.
C5_Witness ==
    \E p \in Callers :
        /\ pc[p] = "create_inserted"
        /\ memories = <<>>
        /\ Len(issued) > 0
        /\ frame[p].lastrowid = Len(issued) + 1

\* C6: creates that ran in parallel returned pairwise distinct ids, and the
\* row under each returned id, while it exists, carries the media path and
\* media type of the caller that was given the id.
C6_ParallelCreatesDistinct ==
    /\ \A p, q \in Callers :
          (p # q /\ Created(p) /\ Created(q)) => frame[p].ret # frame[q].ret
    /\ \A p \in Callers :
          (Created(p) /\ frame[p].ret \in DOMAIN memories) =>
              /\ memories[frame[p].ret].media_path = frame[p].args.media_path
              /\ memories[frame[p].ret].media_type = frame[p].args.media_type
    /\ \A p \in Callers :
          pc[p] = "create_inserted" =>
              frame[p].conn.memories[frame[p].lastrowid]
                  = NewRow(frame[p].lastrowid, frame[p].args)

\* Two callers hold the outcomes of creates with different arguments, both
\* rows present.
C6_Witness ==
    \E p, q \in Callers :
        /\ p # q /\ Created(p) /\ Created(q)
        /\ frame[p].args # frame[q].args
        /\ {frame[p].ret, frame[q].ret} \subseteq DOMAIN memories

(***************************************************************************)
(* Properties of upload_memory (app.py).                                   *)
(***************************************************************************)
Ended(p) == pc[p] = "done" /\ frame[p].op = "upload"

\* The record create_memory would hold for the blob of an upload.
RecordsOf(path) ==
    { i \in DOMAIN memories : memories[i].media_path = MediaUrl(path.name) }

\* C7: an upload whose content type is neither image/* nor audio/* ends with
\* status 400 and the "files are supported" detail.
C7_UnsupportedTypeIs400 ==
    \A p \in Callers :
        (Ended(p) /\ frame[p].stage = "validation") =>
            /\ frame[p].status = 400
            /\ frame[p].detail = ValidationError(frame[p].content_type).detail

\* C8: the step that rejects an upload (missing or empty title, content type
\* absent or unsupported) leaves the upload directory, the memories table and
\* the index as they were.
C8_RejectedLeavesNothing ==
    [][\A p \in Callers :
          (/\ pc[p] = "idle" /\ pc'[p] = "done"
           /\ frame'[p].op = "upload"
           /\ frame'[p].stage \in {"request", "validation"})
          => /\ uploads' = uploads
             /\ memories' = memories
             /\ memories_fts' = memories_fts
             /\ sqlite_sequence' = sqlite_sequence]_vars

\* An upload was rejected for its content type while an earlier upload's blob
\* and record exist.
C8_Witness ==
    \E p \in Callers :
        /\ Ended(p) /\ frame[p].stage = "validation"
        /\ frame[p].content_type = [main |-> "text", sub |-> "plain"]
        /\ uploads # {} /\ DOMAIN memories # {}

\* An upload was rejected for its empty title.
C8_WitnessTitle ==
    \E p \in Callers :
        /\ Ended(p) /\ frame[p].stage = "request"
        /\ frame[p].title = Str_empty

FailedAfterBlob(p) == Ended(p) /\ frame[p].stage \in {"save", "create"}

C10_UnlinkFailureAbsorbed ==
    \A p \in Callers :
        (FailedAfterBlob(p) /\ frame[p].unlink = "raised") =>
            frame[p].detail = "Upload failed"


\* C11: when the request is cancelled while upload_memory is suspended (in
\* await file.read() or in await transcribe_audio), the upload ends with
\* neither its blob in the upload directory nor a record for it.
C11_CancelledUploadLeavesNothing ==
    \A p \in Callers :
        (Ended(p) /\ frame[p].stage = "cancelled") =>
            /\ frame[p].file_path \notin uploads
            /\ RecordsOf(frame[p].file_path) = {}

\* C12: an upload whose extractor failed is never aborted by that failure:
\* it goes on to scoring and create_memory, and only create_memory can still
\* make it fail.
C12_ExtractorFailureGoesOn ==
    \A p \in Callers :
        ("extract_failed" \in DOMAIN frame[p] /\ frame[p].extract_failed) =>
            /\ pc[p] \in {"upload_routed", "upload_scored", "upload_inserted",
                          "upload_failed", "done"}
            /\ pc[p] = "upload_failed" => frame[p].stage = "create"

\* An upload whose extractor failed was committed and its record exists.
C12_Witness ==
    \E p \in Callers :
        /\ Ended(p) /\ frame[p].stage = "committed"
        /\ frame[p].extract_failed
        /\ frame[p].memory.id \in DOMAIN memories


Committed_upload(p) == Ended(p) /\ frame[p].stage = "committed"

\* C13: when OCR or ASR failed during an upload that was committed, the
\* record's text is empty and its sentiment is 0.0.
C13_FailedExtractionStoresNoText ==
    \A p \in Callers :
        (Committed_upload(p) /\ frame[p].extract_failed) =>
            /\ ~Truthy(memories[frame[p].memory.id].text)
            /\ memories[frame[p].memory.id].sentiment = 0

\* C14: when the extracted text of a committed upload is empty, the scorer
\* was not called and the record's sentiment is exactly 0.0.
C14_NoTextNoScoring ==
    \A p \in Callers :
        /\ (pc[p] = "upload_scored" /\ ~Truthy(frame[p].extracted_text)) =>
               ~frame[p].scorer_called /\ frame[p].sentiment_score = 0
        /\ (Committed_upload(p) /\ ~Truthy(frame[p].memory.text)) =>
               /\ ~frame[p].scorer_called
               /\ memories[frame[p].memory.id].sentiment = 0

\* An upload whose OCR or ASR returned the empty text was committed.
C14_Witness ==
    \E p \in Callers :
        /\ Committed_upload(p) /\ ~frame[p].extract_failed
        /\ memories[frame[p].memory.id].text = Str_empty
        /\ memories[frame[p].memory.id].sentiment = 0

(***************************************************************************)
(* Properties of analyze_sentiment (sentiment_utils.py).                   *)
(***************************************************************************)
Analyzed(p) == pc[p] = "done" /\ frame[p].op = "analyze"

\* C15 as stated: analyze_sentiment returns a value within [-1.0, 1.0]; for
\* empty or whitespace-only text, and when a scorer fails, it returns 0.0.
C15_ScoreInRangeZeroOnFailure ==
    \A p \in Callers :
        Analyzed(p) =>
            /\ frame[p].ret \in -100..100
            /\ IsBlank(frame[p].text) => frame[p].ret = 0
            /\ (frame[p].s.tb.raised \/ frame[p].s.vd.raised) => frame[p].ret = 0

\* C15 amended: analyze_sentiment returns a value within [-1.0, 1.0]; for
\* empty or whitespace-only text, and when both scorers fail, it returns 0.0;
\* when one scorer fails it returns half the other scorer's value, rounded.
C15_ScoreInRange ==
    \A p \in Callers :
        Analyzed(p) =>
            LET tb == frame[p].s.tb
                vd == frame[p].s.vd
            IN  /\ frame[p].ret \in -100..100
                /\ IsBlank(frame[p].text) => frame[p].ret = 0
                /\ (tb.raised /\ vd.raised) => frame[p].ret = 0
                /\ (~IsBlank(frame[p].text) /\ tb.raised /\ ~vd.raised) =>
                       2 * frame[p].ret - vd.value \in {-1, 0, 1}
                /\ (~IsBlank(frame[p].text) /\ vd.raised /\ ~tb.raised) =>
                       2 * frame[p].ret - tb.value \in {-1, 0, 1}

\* Both scorers returned 1.0 for a text and the result is 1.0.
C15_Witness ==
    \E p \in Callers :
        /\ Analyzed(p) /\ frame[p].text = Str_bc
        /\ frame[p].s.tb = [raised |-> FALSE, value |-> 100]
        /\ frame[p].s.vd = [raised |-> FALSE, value |-> 100]
        /\ frame[p].ret = 100


(***************************************************************************)
(* Properties of create_memory and update_memory under a running clock.    *)
(***************************************************************************)
\* C16: every row of table memories has a sentiment within [-1.0, 1.0],
\* whatever sentiment values create_memory and update_memory were given.
C16_StoredSentimentInRange ==
    \A i \in DOMAIN memories : memories[i].sentiment \in -100..100

AllowList == {"title", "text", "date", "location", "sentiment", "person"}

\* C17: the commit of update_memory(id, kwargs) keeps the set of rows and
\* every other row; in row id it keeps id, media_type, media_path and
\* created_at, gives each passed allow-listed column its passed value, and
\* changes no other column than those and updated_at.
C17_UpdateChangesOnlyAllowed ==
    [][\A p \in Callers :
          (pc[p] = "update_executed" /\ pc'[p] = "done") =>
              LET id == frame[p].memory_id
                  kw == frame[p].kwargs
              IN  /\ DOMAIN memories' = DOMAIN memories
                  /\ \A i \in DOMAIN memories \ {id} : memories'[i] = memories[i]
                  /\ id \in DOMAIN memories =>
                       /\ \A k \in {"id", "media_type", "media_path", "created_at"} :
                              memories'[id][k] = memories[id][k]
                       /\ \A k \in DOMAIN kw \cap AllowList :
                              memories'[id][k] = kw[k]
                       /\ \A k \in Columns \ (DOMAIN kw \cup {"updated_at"}) :
                              memories'[id][k] = memories[id][k]]_vars

\* An update that passed id, media_type, media_path, created_at and person
\* returned True a second after the row was created: the row has the new
\* person and updated_at, and is otherwise as created.
C17_Witness ==
    \E p \in Callers :
        /\ Updated(p) /\ "media_type" \in DOMAIN frame[p].kwargs
        /\ frame[p].memory_id = 1
        /\ memories[1].person = Str_d
        /\ memories[1].media_type = "image"
        /\ memories[1].created_at = 0 /\ memories[1].updated_at = 1

UpdateReturned(p) ==
    pc[p] = "done" /\ frame[p].op = "update" /\ frame[p].raised = "none"

C19_BlankQueryRejected ==
    [][\A p \in Callers :
          (/\ pc[p] = "idle" /\ pc'[p] = "done"
           /\ frame'[p].op = "search_api"
           /\ frame'[p].q # NULL
           /\ \A i \in 1..Len(frame'[p].q) : frame'[p].q[i] = " ")
          => /\ frame'[p].status = 400
             /\ ~frame'[p].queried
             /\ UNCHANGED <<memories, sqlite_sequence, memories_fts, uploads>>]_vars

\* A search for " " was answered 400 while the store holds a record.
C19_Witness ==
    \E p \in Callers :
        /\ pc[p] = "done" /\ frame[p].op = "search_api"
        /\ frame[p].q = <<" ">>
        /\ frame[p].status = 400
        /\ DOMAIN memories # {}


\* The non-empty substrings of a text value; None has none.
SubstringsOf(v) ==
    IF v = NULL THEN {}
    ELSE { SubSeq(v, i, j) : i \in 1..Len(v), j \in 1..Len(v) } \ {<<>>}

\* C20: when a create has returned an id, a search for any substring of the
\* title or the text it was given returns a result with that id.
C20_SubstringSearchFindsCreated ==
    \A p \in Callers :
        Created(p) =>
            \A q \in SubstringsOf(frame[p].args.title)
                       \cup SubstringsOf(frame[p].args.text) :
                frame[p].ret \in SearchIds(memories, memories_fts, q)


(***************************************************************************)
(* Properties of an uploaded record's life: upload, search, delete.        *)
(***************************************************************************)
\* The words of a text: its maximal runs of characters other than the space.
WordsOf(v) ==
    IF v = NULL THEN {}
    ELSE { SubSeq(v, i, j) : i \in 1..Len(v), j \in 1..Len(v) } \cap
         { w \in { SubSeq(v, i, j) : i \in 1..Len(v), j \in 1..Len(v) } :
             /\ w # <<>>
             /\ \A k \in 1..Len(w) : w[k] # " "
             /\ \E i \in 1..Len(v) :
                  /\ i + Len(w) - 1 <= Len(v)
                  /\ SubSeq(v, i, i + Len(w) - 1) = w
                  /\ (i = 1 \/ v[i - 1] = " ")
                  /\ (i + Len(w) - 1 = Len(v) \/ v[i + Len(w)] = " ") }

SearchAnswered(p) ==
    pc[p] = "done" /\ frame[p].op = "search_api" /\ frame[p].q # NULL

\* C21: a search through the search endpoint for a word of the title of a
\* record that an upload stored is answered with status 200 and a result
\* list that holds an entry with the record's id and title.
C21_UploadFoundByTitleWord ==
    \A p \in Callers :
        SearchAnswered(p) =>
            \A i \in DOMAIN memories :
                frame[p].q \in WordsOf(memories[i].title) =>
                    /\ frame[p].status = 200
                    /\ \E k \in 1..Len(frame[p].results) :
                         /\ frame[p].results[k].id = i
                         /\ frame[p].results[k].title = memories[i].title


(***************************************************************************)
(* Properties of the read side: search_memories with a limit, the order    *)
(* of its results, and the pages of get_all_memories / list_memories.      *)
(***************************************************************************)
Searched(p) ==
    pc[p] = "done" /\ frame[p].op = "search" /\ frame[p].raised = "none"

\* C22: search_memories(query, limit) returns at most limit results for
\* every integer limit, none for a limit of zero or below, and at most 20
\* when no limit is passed.
C22_SearchAtMostLimit ==
    \A p \in Callers :
        Searched(p) =>
            Len(frame[p].ret) <= (IF frame[p].limit < 0 THEN 0 ELSE frame[p].limit)

\* C23: in the result list of a search, of two results with the same
\* relevance score the one created later comes first.
C23_TiesByCreatedAtDesc ==
    \A p \in Callers :
        Searched(p) =>
            \A i, j \in 1..Len(frame[p].ret) :
                (/\ i < j
                 /\ EqualRank(memories_fts, frame[p].query,
                              frame[p].ret[i].id, frame[p].ret[j].id))
                => memories[frame[p].ret[i].id].created_at
                       >= memories[frame[p].ret[j].id].created_at

Listed(p) ==
    pc[p] = "done" /\ frame[p].op \in {"list", "list_api"}

ListedRows(p) ==
    IF frame[p].op = "list" THEN frame[p].ret ELSE frame[p].memories

\* The ids of the pages of the given size, one page after the other, up to
\* the first empty page.
RECURSIVE Pages(_, _, _)
Pages(content, size, offset) ==
    LET page == get_all_memories(content, size, offset)
    IN  IF page = <<>> THEN <<>>
        ELSE [i \in 1..Len(page) |-> page[i].id]
             \o Pages(content, size, offset + size)

C24_WitnessPage ==
    \E p \in Callers :
        /\ Listed(p) /\ frame[p].offset = 1 /\ frame[p].limit = 1
        /\ Len(ListedRows(p)) = 1
        /\ ListedRows(p)[1].id = 1
        /\ Cardinality(DOMAIN memories) = 2

StatsReturned(p) ==
    pc[p] = "done" /\ frame[p].op = "stats" /\ frame[p].raised = "none"

\* C25: the dictionary get_database_stats returns is the aggregate of one
\* committed state, so its total_memories is the sum of the counts of its
\* by_type, also when other callers commit while it runs.
C25_StatsOfOneState ==
    \A p \in Callers :
        StatsReturned(p) =>
            frame[p].ret.total_memories
                = SumOver(DOMAIN frame[p].ret.by_type, frame[p].ret.by_type)

\* C26: every result of a search carries a snippet in which a matched query
\* term is wrapped in the highlight markers, whichever of title, text and
\* person the term matched in.
C26_SnippetHighlightsMatch ==
    \A p \in Callers :
        Searched(p) =>
            \A k \in 1..Len(frame[p].ret) :
                \E n \in 1..Len(frame[p].ret[k].snippet) :
                    frame[p].ret[k].snippet[n].marked # {}


(***************************************************************************)
(* Properties of the upload response, the upload size and the blob.        *)
(***************************************************************************)
\* C27: the memory object of a successful upload holds the person that was
\* submitted, together with id, title, text, sentiment, media_path and
\* media_type.
C27_ResponseIsFullRecord ==
    \A p \in Callers :
        Committed_upload(p) =>
            /\ {"id", "title", "text", "sentiment", "media_path", "media_type",
                "person"} \subseteq DOMAIN frame[p].memory
            /\ frame[p].memory.person = frame[p].person

\* C28: an upload of a file of more than 25 MB ends with status 400, stores
\* no record and keeps no blob.
C28_LargeUploadRejected ==
    \A p \in Callers :
        (Ended(p) /\ frame[p].size > max_size) =>
            /\ frame[p].status = 400
            /\ frame[p].file_path \notin uploads
            /\ frame[p].stage # "committed"

DeleteReturned(p) ==
    pc[p] = "done" /\ frame[p].op = "delete" /\ frame[p].raised = "none"
        /\ frame[p].ret

\* C29: after delete_memory returned True for a record that an upload
\* stored, the file the upload wrote exists no more, unless its removal
\* failed: the record's media_path names that file.
C29_DeleteRemovesBlob ==
    \A p \in Callers :
        (DeleteReturned(p) /\ frame[p].removed # "raised") =>
            \A n \in 1..MaxUploads :
                frame[p].media_path = MediaUrl(n) => UploadPath(n) \notin uploads


(***************************************************************************)
(* Properties of the threads of the server.                                *)
(***************************************************************************)
\* The extractor of p's upload is at work: OCR of a saved image, or Whisper
\* in the executor.
Extracting(p) ==
    \/ pc[p] = "upload_saved" /\ is_image(frame[p].content_type)
    \/ pc[p] = "upload_transcribing"

\* C30: while the OCR or ASR of one upload is at work, the thread that
\* accepts requests is free to start another caller's upload.
C30_ExtractionOffTheLoop ==
    \A p, q \in Callers :
        (p # q /\ Extracting(p) /\ Idle(q)) => LoopFree(q)


(***************************************************************************)
(* Properties of the store's outcomes: failures and absent records.        *)
(***************************************************************************)
\* C31: an operation of the store that could not complete because the
\* medium failed ends with the failure raised to its caller, never with a
\* returned result.
C31_MediumFailureRaised ==
    \A p \in Callers :
        (pc[p] = "done" /\ "fault" \in DOMAIN frame[p]) =>
            frame[p].raised # "none"

\* Caller p starts get_memory_by_id, update_memory or delete_memory with an
\* id that the table holds no record of.
CallsAbsent(p) ==
    /\ pc[p] = "idle" /\ pc'[p] # "idle"
    /\ frame'[p].op \in {"get", "update", "delete"}
    /\ frame'[p].memory_id \notin DOMAIN memories

NotFound(f) ==
    /\ f.raised = "none"
    /\ IF f.op = "get" THEN ~f.ret.found ELSE f.ret = FALSE

\* C32: get_memory_by_id, update_memory and delete_memory called with an id
\* no record has return None / False without raising, and the table, the
\* index and the upload directory stay as they were.
C32_AbsentIdIsNotFound ==
    [][\A p \in Callers :
         /\ CallsAbsent(p) =>
               /\ \/ pc'[p] = "done" /\ NotFound(frame'[p])
                  \/ pc'[p] = "update_executed" /\ frame'[p].rowcount = 0
               /\ UNCHANGED <<dbvars, uploads>>
         /\ (pc[p] = "update_executed" /\ frame[p].rowcount = 0
                /\ pc'[p] # pc[p]) =>
               /\ pc'[p] = "done" /\ NotFound(frame'[p])
               /\ UNCHANGED <<dbvars, uploads>>]_vars

\* C33: every record the table holds has a non-empty title.
C33_TitlesNonEmpty ==
    \A i \in DOMAIN memories : Truthy(memories[i].title)


(***************************************************************************)
(* Properties of the order of an upload's steps.                           *)
(***************************************************************************)
\* Caller p's upload moves to position `to'.
UploadStep(p, to) == pc[p] # to /\ pc'[p] = to

\* The extractor of p's upload has returned in this step.
ExtractionReturns(p) ==
    /\ "extracted_text" \notin DOMAIN frame[p]
    /\ "extracted_text" \in DOMAIN frame'[p]

\* C34: an upload validates the media kind, then writes the blob, then
\* extracts, then scores, then creates the record: a file is opened only by
\* a request whose kind passed validation, extraction starts only when the
\* blob is written and closed, scoring only after extraction returned, and
\* the INSERT and the commit of the record only after the score is there.
C34_UploadStepsInOrder ==
    [][/\ uuid_seq' # uuid_seq =>
            \E p \in Callers :
                /\ pc[p] = "idle" /\ pc'[p] = "upload_reading"
                /\ is_image(frame'[p].content_type)
                      \/ is_audio(frame'[p].content_type)
       /\ \A p \in Callers :
            /\ UploadStep(p, "upload_saved") =>
                  pc[p] = "upload_reading" /\ frame[p].file_path \in uploads
            /\ (UploadStep(p, "upload_transcribing") \/ ExtractionReturns(p)) =>
                  /\ pc[p] \in {"upload_saved", "upload_transcribing"}
                  /\ frame[p].file_path \in uploads
            /\ UploadStep(p, "upload_transcribing") => pc[p] = "upload_saved"
            /\ UploadStep(p, "upload_scored") =>
                  /\ pc[p] = "upload_routed"
                  /\ "extracted_text" \in DOMAIN frame[p]
            /\ UploadStep(p, "upload_inserted") =>
                  /\ pc[p] = "upload_scored"
                  /\ "sentiment_score" \in DOMAIN frame[p]
       /\ memories' # memories =>
            \E p \in Callers :
                /\ pc[p] = "upload_inserted"
                /\ frame[p].conn.memories = memories'
                /\ "sentiment_score" \in DOMAIN frame[p]]_vars

\* An audio upload went through every step: its transcript was scored and
\* the record of it is in the table.
C34_Witness ==
    \E p \in Callers :
        /\ Committed_upload(p) /\ is_audio(frame[p].content_type)
        /\ frame[p].scorer_called /\ ~frame[p].extract_failed
        /\ frame[p].memory.id \in DOMAIN memories
        /\ frame[p].file_path \in uploads


(***************************************************************************)
(* Properties of the labelled segments of a search snippet.                *)
(***************************************************************************)
\* A term of the query is listed by the index for column col of row rowid.
MatchedIn(query, rowid, col) ==
    \E e \in memories_fts :
        e.rowid = rowid /\ e.col = col /\ e.term \in QueryTerms(query)

\* C35: in the snippet of a search result the part labelled "Title:" shows
\* the record's title and the part labelled "Text:" shows the record's text,
\* and a labelled part is there only for a column the query matched in.
C35_SegmentsShowTheirField ==
    \A p \in Callers :
        Searched(p) =>
            \A k \in 1..Len(frame[p].ret) :
                LET r == frame[p].ret[k]
                IN  \A n \in 1..Len(r.snippet) :
                      /\ r.snippet[n].label = "Title" =>
                            /\ r.snippet[n].text = memories[r.id].title
                            /\ MatchedIn(frame[p].query, r.id, 0)
                      /\ r.snippet[n].label = "Text" =>
                            /\ r.snippet[n].text = memories[r.id].text
                            /\ MatchedIn(frame[p].query, r.id, 1)


(***************************************************************************)
(* Properties of a create_memory that fails.                               *)
(***************************************************************************)
\* Arguments the table refuses: a NULL in a NOT NULL column, or a media_type
\* outside image and audio.
Refused(args) ==
    \/ args.title = NULL
    \/ args.media_path = NoPath
    \/ args.media_type \notin {"image", "audio"}

\* Caller p's create_memory ends in this step.
CreateEnds(p) ==
    /\ pc[p] \in {"idle", "create_inserted"}
    /\ pc'[p] = "done" /\ frame'[p].op = "create"

\* C36: a create_memory whose arguments the table refuses, or that meets an
\* unavailable medium, raises to its caller, and a create_memory that raises
\* leaves the committed table, its sequence and the index as they were; the
\* connection it left open commits nothing when it is collected.
C36_FailedCreateCommitsNothing ==
    [][/\ \A p \in Callers :
            CreateEnds(p) =>
               /\ (Refused(frame'[p].args) \/ "fault" \in DOMAIN frame'[p]) =>
                      frame'[p].raised # "none"
               /\ frame'[p].raised # "none" => UNCHANGED dbvars
       /\ (lock = "leaked" /\ lock' # "leaked") => UNCHANGED dbvars]_vars

\* A create_memory with media_type "video" raised IntegrityError, and one
\* whose commit failed raised too, next to a committed record.
C36_Witness ==
    \E p \in Callers :
        /\ pc[p] = "done" /\ frame[p].op = "create"
        /\ frame[p].raised # "none"
        /\ Refused(frame[p].args) \/ "fault" \in DOMAIN frame[p]
        /\ DOMAIN memories # {}
        /\ lock = "leaked"


(***************************************************************************)
(* Properties of two delete_memory calls for one record.                   *)
(***************************************************************************)
\* Caller p's delete_memory found the row with its SELECT and has not
\* returned yet.
DeleteInFlight(p) ==
    pc[p] \in {"delete_selected", "delete_executed", "delete_committed"}

\* Caller p's delete_memory has deleted the row: it is about to look for the
\* media file, or has returned True.
DeleteSucceeded(p) ==
    \/ pc[p] = "delete_committed"
    \/ pc[p] = "done" /\ frame[p].op = "delete" /\ frame[p].raised = "none"
                      /\ frame[p].ret = TRUE

\* Caller p's delete_memory found a record that another caller's
\* delete_memory found too.
DeleteRaces(p) ==
    /\ DeleteInFlight(p)
    /\ \E q \in Callers \ {p} :
          /\ DeleteInFlight(q) \/ DeleteSucceeded(q)
          /\ frame[q].memory_id = frame[p].memory_id

\* C37: of two delete_memory calls that found one and the same record, one
\* returns True and the other returns False, neither raises, and only the
\* one that returns True looks for the media file.
C37_OneDeleteSucceeds ==
    [][\A p \in Callers :
         /\ \A q \in Callers \ {p} :
               (DeleteSucceeded(p) /\ DeleteSucceeded(q)) =>
                   frame[p].memory_id # frame[q].memory_id
         /\ (DeleteRaces(p) /\ pc'[p] = "done") =>
               /\ frame'[p].raised = "none"
               /\ frame'[p].ret = FALSE =>
                     \/ frame[p].memory_id \in deleted'
                     \/ \E q \in Callers \ {p} :
                           /\ pc'[q] = "delete_committed"
                           /\ frame'[q].memory_id = frame[p].memory_id
               /\ uploads' # uploads => frame'[p].ret = TRUE]_vars


(***************************************************************************)
(* Properties of the upload directory against the table.                   *)
(***************************************************************************)
\* upload_memory of caller p is between opening its file and its response.
UploadInProgress(p) ==
    pc[p] \in {"upload_reading", "upload_saved", "upload_transcribing",
               "upload_routed", "upload_scored", "upload_inserted",
               "upload_failed"}

\* C38: while no upload is in progress, every file of the upload directory
\* has exactly one record whose media_path names it and every such record
\* has its file; an upload that ended in success has its file and its one
\* record, and an upload that ended in failure, not by cancellation, has
\* neither.
C38_BlobsMatchRecords ==
    (\A p \in Callers : ~UploadInProgress(p)) =>
        /\ \A n \in 1..MaxUploads :
              /\ UploadPath(n) \in uploads =>
                    Cardinality(RecordsOf(UploadPath(n))) = 1
              /\ RecordsOf(UploadPath(n)) # {} => UploadPath(n) \in uploads
        /\ \A p \in Callers :
              /\ Committed_upload(p) =>
                    /\ frame[p].file_path \in uploads
                    /\ Cardinality(RecordsOf(frame[p].file_path)) = 1
              /\ (Ended(p) /\ frame[p].stage \notin {"committed", "cancelled"}) =>
                    /\ frame[p].file_path \notin uploads
                    /\ RecordsOf(frame[p].file_path) = {}

====
